---- MODULE Spec2Model ----
(***************************************************************************)
(* Tech_Stock_Monitor.py: fetch_stock_data (metrics and golden-cross scan) *)
(* and one refresh pass of main.                                           *)
(*                                                                         *)
(* Prices are integers and a mean is the exact fraction sum/window, so     *)
(* comparisons of moving averages are exact.  A Python value is a record   *)
(* [t, n, d]: t names its kind ("num", "None", "N/A", "nan", "inf",        *)
(* "-inf") and n/d is the number when t = "num".  Bars carry their date as *)
(* the trading-day number.                                                 *)
(***************************************************************************)
EXTENDS Integers, Sequences, FiniteSets, TLC

(* ---------------------------------------------------------------- values *)

Num(x) == [t |-> "num", n |-> x, d |-> 1]
Rat(x, y) == [t |-> "num", n |-> x, d |-> y]
None == [t |-> "None", n |-> 0, d |-> 1]
NA == [t |-> "N/A", n |-> 0, d |-> 1]
NaN == [t |-> "nan", n |-> 0, d |-> 1]
PosInf == [t |-> "inf", n |-> 0, d |-> 1]
NegInf == [t |-> "-inf", n |-> 0, d |-> 1]

IsNum(a) == a.t = "num"

\* mutant of Gt: the crossover test written with >=
GtOrEqual(a, b) == IsNum(a) /\ IsNum(b) /\ a.n * b.d >= b.n * a.d

\* a > b on floats: false as soon as one side is NaN
Gt(a, b) == IsNum(a) /\ IsNum(b) /\ a.n * b.d > b.n * a.d

\* mutant of Le: the day before must be strictly below
LeStrict(a, b) == IsNum(a) /\ IsNum(b) /\ a.n * b.d < b.n * a.d

\* mutant of Le: written as not (a > b), which is true when one side is NaN
LeOrUnordered(a, b) == ~(IsNum(a) /\ IsNum(b) /\ a.n * b.d > b.n * a.d)

\* a <= b on floats: false as soon as one side is NaN
Le(a, b) == IsNum(a) /\ IsNum(b) /\ a.n * b.d <= b.n * a.d

\* a == b on floats
EqNum(a, b) == IsNum(a) /\ IsNum(b) /\ a.n * b.d = b.n * a.d

Min(a, b) == IF a < b THEN a ELSE b

(* ------------------------------------------------------ program constants *)

FastWindow == 50
SlowWindow == 200
TailLen == 60
ScanStop == 31

(* --------------------------------------------------------------- pandas  *)

RECURSIVE SumClose(_, _, _)
\* sum of Close over bars lo..hi (1-based, inclusive), summed by halves
SumClose(hist, lo, hi) ==
    IF lo > hi THEN 0
    ELSE IF lo = hi THEN hist[lo].Close
    ELSE LET mid == (lo + hi) \div 2
         IN SumClose(hist, lo, mid) + SumClose(hist, mid + 1, hi)

\* hist["Close"].tail(w).mean(), for len(hist) >= w
TailMean(hist, w) == Rat(SumClose(hist, Len(hist) - w + 1, Len(hist)), w)

RECURSIVE CumClose(_, _, _, _)
\* the running sums base + Close[lo], base + Close[lo] + Close[lo+1], ... up to hi,
\* built by halves
CumClose(hist, lo, hi, base) ==
    IF lo > hi THEN <<>>
    ELSE IF lo = hi THEN <<base + hist[lo].Close>>
    ELSE LET mid == (lo + hi) \div 2
             left == CumClose(hist, lo, mid, base)
         IN left \o CumClose(hist, mid + 1, hi, left[Len(left)])

RECURSIVE WindowMeans(_, _, _, _)
\* the entries lo..hi of the rolling mean, from the running sums, built by halves
WindowMeans(cum, w, lo, hi) ==
    IF lo > hi THEN <<>>
    ELSE IF lo = hi
         THEN <<IF lo < w THEN NaN
                ELSE Rat(cum[lo] - (IF lo = w THEN 0 ELSE cum[lo - w]), w)>>
    ELSE LET mid == (lo + hi) \div 2
         IN WindowMeans(cum, w, lo, mid) \o WindowMeans(cum, w, mid + 1, hi)

\* hist["Close"].rolling(window=w).mean(): NaN until w bars are available, then
\* the mean of the w bars ending at i (the window sum is the sum that entered
\* minus the sum that left)
RollingMean(hist, w) ==
    WindowMeans(CumClose(hist, 1, Len(hist), 0), w, 1, Len(hist))

\* series.tail(k) of a series of length n: [len |-> , at |-> ] keeps the length
SeriesTail(series, n, k) ==
    [len |-> Min(k, n),
     at |-> [j \in 1..Min(k, n) |-> series[n - Min(k, n) + j]]]

\* series.iloc[-k]
ILocNeg(s, k) == s.at[s.len + 1 - k]

RECURSIVE ScanFrom(_, _, _, _)
\* the loop of lines 111-115 from index i on: the i at which it breaks,
\* 0 when range() is exhausted, -1 when an iloc read is out of bounds
ScanFrom(ma_50d_series, ma_200d_series, i, stop) ==
    IF i >= stop THEN 0
    ELSE IF i > ma_50d_series.len \/ i > ma_200d_series.len THEN -1
    ELSE IF ~Gt(ILocNeg(ma_50d_series, i), ILocNeg(ma_200d_series, i))
         THEN ScanFrom(ma_50d_series, ma_200d_series, i + 1, stop)
    ELSE IF i + 1 > ma_50d_series.len \/ i + 1 > ma_200d_series.len THEN -1
    ELSE IF Le(ILocNeg(ma_50d_series, i + 1), ILocNeg(ma_200d_series, i + 1))
         THEN i
    ELSE ScanFrom(ma_50d_series, ma_200d_series, i + 1, stop)

\* rolling(window=w, min_periods=1).mean(): the mean of the bars available
RollingMeanPartial(hist, w) ==
    LET cum == CumClose(hist, 1, Len(hist), 0)
    IN [i \in 1..Len(hist) |->
           Rat(cum[i] - (IF i <= w THEN 0 ELSE cum[i - w]), Min(i, w))]

\* mutant of CrossScan: the scan runs from 50 bars on, over partial windows
CrossScanPartial(hist_long) ==
    IF Len(hist_long) >= FastWindow
    THEN LET ma_50d_series ==
                 SeriesTail(RollingMeanPartial(hist_long, FastWindow),
                            Len(hist_long), TailLen)
             ma_200d_series ==
                 SeriesTail(RollingMeanPartial(hist_long, SlowWindow),
                            Len(hist_long), TailLen)
         IN ScanFrom(ma_50d_series, ma_200d_series, 1,
                     Min(ScanStop, ma_50d_series.len))
    ELSE 0

\* mutant of CrossScan: tail(30) for the 30-day lookback, range(1, 31) without min
CrossScanShortTail(hist_long) ==
    IF Len(hist_long) >= SlowWindow
    THEN LET ma_50d_series ==
                 SeriesTail(RollingMean(hist_long, FastWindow), Len(hist_long),
                            ScanStop - 1)
             ma_200d_series ==
                 SeriesTail(RollingMean(hist_long, SlowWindow), Len(hist_long),
                            ScanStop - 1)
         IN ScanFrom(ma_50d_series, ma_200d_series, 1, ScanStop)
    ELSE 0

\* lines 102-115: 0 when golden_cross stays False, else the i of the break
CrossScan(hist_long) ==
    IF Len(hist_long) >= SlowWindow
    THEN LET ma_50d_series ==
                 SeriesTail(RollingMean(hist_long, FastWindow), Len(hist_long), TailLen)
             ma_200d_series ==
                 SeriesTail(RollingMean(hist_long, SlowWindow), Len(hist_long), TailLen)
         IN ScanFrom(ma_50d_series, ma_200d_series, 1,
                     Min(ScanStop, ma_50d_series.len))
    ELSE 0

(* ------------------------------------------------------ fetch_stock_data *)

\* dict.get(key, default)
Get(info, key, default) == IF key \in DOMAIN info THEN info[key] ELSE default

\* numpy float64 a / b for integers a, b: no exception on b = 0
NpDiv(a, b) ==
    IF b = 0 THEN (IF a > 0 THEN PosInf ELSE IF a < 0 THEN NegInf ELSE NaN)
    ELSE IF b < 0 THEN Rat(-a, -b) ELSE Rat(a, b)

\* x * 100 on a float
Times100(x) == IF IsNum(x) THEN Rat(x.n * 100, x.d) ELSE x

\* lines 74-84: [raised, previous_close, daily_change, percentage_change]
DailyChange(info, hist_recent) ==
    LET current_price == hist_recent[Len(hist_recent)].Close IN
    IF Len(hist_recent) >= 2
    THEN LET previous_close == hist_recent[Len(hist_recent) - 1].Close IN
         [raised |-> FALSE,
          previous_close |-> Num(previous_close),
          daily_change |-> Num(current_price - previous_close),
          percentage_change |->
              Times100(NpDiv(current_price - previous_close, previous_close))]
    ELSE LET previous_close == Get(info, "previousClose", Num(current_price)) IN
         IF ~IsNum(previous_close)
         THEN \* float - None: TypeError
              [raised |-> TRUE, previous_close |-> previous_close,
               daily_change |-> None, percentage_change |-> None]
         ELSE [raised |-> FALSE,
               previous_close |-> previous_close,
               daily_change |-> Num(current_price - previous_close.n),
               percentage_change |->
                   IF previous_close.n # 0
                   THEN Times100(NpDiv(current_price - previous_close.n,
                                       previous_close.n))
                   ELSE Num(0)]

\* mutant of Ma50d: the guard written with >
Ma50dStrictGuard(hist_long) ==
    IF Len(hist_long) > FastWindow THEN TailMean(hist_long, FastWindow) ELSE None

\* lines 92-94
Ma50d(hist_long) ==
    IF Len(hist_long) >= FastWindow THEN TailMean(hist_long, FastWindow) ELSE None

\* lines 97-99
Ma200d(hist_long) ==
    IF Len(hist_long) >= SlowWindow THEN TailMean(hist_long, SlowWindow) ELSE None

\* lines 102-115
GoldenCross(hist_long) == CrossScan(hist_long) > 0

\* fetch_stock_data(symbol) against one provider response p:
\* p.raises names the provider call that raises ("none" when none does),
\* p.info, p.hist_recent and p.hist_long are what the three calls return.
\* The result is None or the stock_data dict (its wall-clock timestamp left out).
fetch_stock_data(symbol, p) ==
    IF p.raises = "info" \/ p.raises = "recent" THEN None
    ELSE IF Len(p.hist_recent) < 1 THEN None
    ELSE LET current_data == p.hist_recent[Len(p.hist_recent)]
             chg == DailyChange(p.info, p.hist_recent)
         IN
         IF chg.raised \/ p.raises = "long" THEN None
         ELSE IF CrossScan(p.hist_long) < 0 THEN None   \* IndexError in the scan
         ELSE [symbol |-> symbol,
               current_price |-> Num(current_data.Close),
               pe_ratio |-> Get(p.info, "trailingPE", Get(p.info, "forwardPE", NA)),
               eps |-> Get(p.info, "trailingEPS",
                           Get(p.info, "forwardEPS",
                               Get(p.info, "epsTrailingTwelveMonths", NA))),
               peg_ratio |-> Get(p.info, "pegRatio",
                                 Get(p.info, "fiveYearAvgDividendYield", NA)),
               pb_ratio |-> Get(p.info, "priceToBook", NA),
               short_percent_float |-> Get(p.info, "shortPercentOfFloat", NA),
               open_price |-> Num(current_data.Open),
               high_price |-> Num(current_data.High),
               low_price |-> Num(current_data.Low),
               volume |-> Num(current_data.Volume),
               daily_change |-> chg.daily_change,
               percentage_change |-> chg.percentage_change,
               market_cap |-> Get(p.info, "marketCap", NA),
               previous_close |-> chg.previous_close,
               ma_50d |-> Ma50d(p.hist_long),
               ma_200d |-> Ma200d(p.hist_long),
               golden_cross |-> GoldenCross(p.hist_long)]

(* ------------------------------------------------------- provider inputs *)

BasePrice == 10
MaxDelta == 1
Period250 == 250

\* a daily bar of the 2-day history
Bar(day, c) ==
    [Date |-> day, Open |-> c, High |-> c, Low |-> c, Close |-> c, Volume |-> 1000 * c]

\* the 2-day histories: 0, 1 or 2 bars, closes among 0 and the prices around BasePrice
RecentCloses == {0} \cup (BasePrice .. BasePrice + MaxDelta)
RecentHists ==
    {<<>>} \cup {<<Bar(2, c)>> : c \in RecentCloses}
           \cup {<<Bar(1, b), Bar(2, c)>> : b \in RecentCloses, c \in RecentCloses}

\* offsets from the last bar (1 = the last bar) at which a long history leaves its base
EventOffsets == {1, 2, 3, 30, 31}
Deltas == {0 - MaxDelta, 0, MaxDelta}
Events == [EventOffsets -> Deltas]
NoEvents == [o \in EventOffsets |-> 0]

\* the long history of n bars: base, moved by ev at the event offsets
MkLong(n, base, ev) ==
    [i \in 1..n |->
        [Date |-> i,
         Close |-> base + (IF (n - i + 1) \in EventOffsets THEN ev[n - i + 1] ELSE 0)]]

ShortLens == {0, 1, FastWindow - 1, FastWindow, SlowWindow - 1}
LongLens == {SlowWindow, SlowWindow + 1, SlowWindow + 29, SlowWindow + 30,
             SlowWindow + 31, Period250}
FlatPrices == {0, BasePrice, BasePrice + MaxDelta}
LongHists ==
    {MkLong(n, b, NoEvents) : n \in ShortLens \cup LongLens, b \in FlatPrices} \cup
    {MkLong(n, BasePrice, ev) : n \in {SlowWindow - 1} \cup LongLens, ev \in Events}

\* info dicts that differ in previousClose only
PrevCloseInfos ==
    {<<>>} \cup {[k \in {"previousClose"} |-> v] :
                    v \in {None, Num(0), Num(BasePrice)}}
EmptyInfo == <<>>

Raises == {"none", "info", "recent", "long"}

\* the provider responses fetch_stock_data is applied to
FetchInputs ==
    {[raises |-> "none", info |-> EmptyInfo, hist_recent |-> <<Bar(2, BasePrice)>>,
      hist_long |-> h] : h \in LongHists} \cup
    {[raises |-> r, info |-> i, hist_recent |-> hr, hist_long |-> MkLong(n, BasePrice, NoEvents)] :
        r \in Raises, i \in PrevCloseInfos, hr \in RecentHists,
        n \in {0, FastWindow, SlowWindow}}

(* ------------------------------------------------------------- rendering *)

\* the first keys of the STOCKS dict, in dict order
SymbolSeq == <<"AAPL", "AMD">>
STOCKS == {SymbolSeq[i] : i \in 1..Len(SymbolSeq)}

\* f"{x:.2f}" and the other number formats: the text shown for a number
Text(x) == [t |-> "text", n |-> x.n, d |-> x.d]

\* the six metadata fields of stock_data and the info key each is read from
MetaKeys == {"trailingPE", "trailingEPS", "pegRatio", "priceToBook",
             "shortPercentOfFloat", "marketCap"}

\* format_currency(value): pd.isna(None) is True
format_currency(value) ==
    IF value = None \/ value = NaN \/ value = NA THEN NA ELSE Text(value)

\* format_volume(volume)
format_volume(volume) ==
    IF volume = None \/ volume = NaN \/ volume = NA THEN NA ELSE Text(volume)

\* the pattern of lines 327-355: "N/A" for the string N/A or None, else the number
DisplayOrNA(raw) == IF raw = NA \/ raw = None THEN NA ELSE Text(raw)

\* lines 221-231, 246-254: a moving average or "N/A"
DisplayMa(ma) == IF ma # None THEN Text(ma) ELSE NA

\* lines 389-393: stock_data["market_cap"] / 1e9 if != "N/A" else nan;
\* None / 1e9 raises TypeError
MarketCapRaises(stock_data) ==
    stock_data.market_cap # NA /\ ~IsNum(stock_data.market_cap)

\* create_summary_table raises when building a row of raw_data raises
SummaryRaises(all_data) ==
    \E sym \in DOMAIN all_data :
        all_data[sym] # None /\ MarketCapRaises(all_data[sym])

\* one row of display_df (lines 406-424)
SummaryRow(stock_data) ==
    [current_price |-> Text(stock_data.current_price),
     pe_ratio |-> DisplayOrNA(stock_data.pe_ratio),
     eps |-> DisplayOrNA(stock_data.eps),
     peg_ratio |-> DisplayOrNA(stock_data.peg_ratio),
     pb_ratio |-> DisplayOrNA(stock_data.pb_ratio),
     short_percent_float |-> DisplayOrNA(stock_data.short_percent_float),
     golden_cross |-> stock_data.golden_cross,
     ma_200d |-> DisplayMa(stock_data.ma_200d),
     ma_50d |-> DisplayMa(stock_data.ma_50d),
     volume |-> format_volume(stock_data.volume),
     market_cap |-> format_currency(stock_data.market_cap)]

\* create_summary_table: the rows shown, by symbol (none when no symbol has data)
create_summary_table(all_data) ==
    LET present == {sym \in DOMAIN all_data : all_data[sym] # None}
    IN [sym \in present |-> SummaryRow(all_data[sym])]

\* display_stock_card: the error notice for None, else the card's metrics
display_stock_card(stock_data) ==
    IF stock_data = None THEN [failed |-> TRUE]
    ELSE [failed |-> FALSE,
          current_price |-> Text(stock_data.current_price),
          volume |-> format_volume(stock_data.volume),
          market_cap |-> format_currency(stock_data.market_cap),
          ma_50d |-> DisplayMa(stock_data.ma_50d),
          ma_200d |-> DisplayMa(stock_data.ma_200d)]

\* lines 567-568: the symbols with data and golden_cross, in dict order
golden_cross_stocks(all_data) ==
    SelectSeq(SymbolSeq,
              LAMBDA sym : all_data[sym] # None /\ all_data[sym].golden_cross)

\* lines 611-627: the crossover points of the re-fetched history (1-based days)
CrossoverPoints(hist) ==
    LET MA50 == RollingMean(hist, FastWindow)
        MA200 == RollingMean(hist, SlowWindow)
    IN {i \in 2..Len(hist) :
           Gt(MA50[i], MA200[i]) /\ Le(MA50[i - 1], MA200[i - 1])}

\* crossover_points[-1] of an ascending list
Largest(S) == CHOOSE x \in S : \A y \in S : y <= x

NoCaption == [shown |-> FALSE, date |-> 0, price |-> 0]

\* mutant of ChartCaption: crossover_points[0], the oldest crossover
ChartCaptionOldest(hist) ==
    IF Len(hist) >= SlowWindow /\ CrossoverPoints(hist) # {}
    THEN LET oldest == CHOOSE x \in CrossoverPoints(hist) :
                           \A y \in CrossoverPoints(hist) : x <= y
         IN [shown |-> TRUE, date |-> hist[oldest].Date, price |-> hist[oldest].Close]
    ELSE [shown |-> FALSE, date |-> 0, price |-> 0]

\* lines 609-639: the caption under the chart of a re-fetched history
ChartCaption(hist) ==
    IF Len(hist) >= SlowWindow /\ CrossoverPoints(hist) # {}
    THEN LET latest_crossover == Largest(CrossoverPoints(hist))
         IN [shown |-> TRUE,
             date |-> hist[latest_crossover].Date,
             price |-> hist[latest_crossover].Close]
    ELSE NoCaption

(* ------------------------------------------- provider inputs of a pass *)

InfoFull == [k \in MetaKeys |-> Num(BasePrice)]
InfoAllNull == [k \in MetaKeys |-> None]
InfoWithout(k) == [j \in MetaKeys \ {k} |-> Num(BasePrice)]
InfoNull(k) == [InfoFull EXCEPT ![k] = None]
MainInfos ==
    {InfoFull, EmptyInfo, InfoAllNull}
        \cup {InfoWithout(k) : k \in MetaKeys} \cup {InfoNull(k) : k \in MetaKeys}

Ev(e1, e2, e3, e30, e31) ==
    [o \in EventOffsets |->
        CASE o = 1 -> e1 [] o = 2 -> e2 [] o = 3 -> e3 [] o = 30 -> e30 [] OTHER -> e31]

TwoBars == <<Bar(1, BasePrice), Bar(2, BasePrice + MaxDelta)>>

\* 250d histories of a pass: none, 60 flat bars, and 230 bars that are flat, that
\* cross once (at the 30th most recent bar), that cross twice inside the window,
\* and that crossed before the window
MainLongs ==
    {<<>>,
     MkLong(FastWindow + 10, BasePrice, NoEvents),
     MkLong(SlowWindow + 30, BasePrice, NoEvents),
     MkLong(SlowWindow + 30, BasePrice, Ev(0, 0, 0, MaxDelta, 0)),
     MkLong(SlowWindow + 30, BasePrice, Ev(MaxDelta, 0 - MaxDelta, MaxDelta, 0, 0)),
     MkLong(SlowWindow + 30, BasePrice, Ev(0, 0, 0, 0, MaxDelta))}

\* the provider responses of one symbol's fetch in a pass: every info dict with
\* a history that crosses, every history with full metadata, a 250d fetch that
\* raises, an empty 2d history
MainInputs ==
    {[raises |-> "none", info |-> i, hist_recent |-> TwoBars,
      hist_long |-> MkLong(SlowWindow + 30, BasePrice, Ev(0, 0, 0, MaxDelta, 0))] :
        i \in MainInfos} \cup
    {[raises |-> "none", info |-> InfoFull, hist_recent |-> TwoBars, hist_long |-> h] :
        h \in MainLongs} \cup
    {[raises |-> "long", info |-> InfoFull, hist_recent |-> TwoBars, hist_long |-> <<>>],
     [raises |-> "none", info |-> InfoFull, hist_recent |-> <<>>,
      hist_long |-> MkLong(SlowWindow + 30, BasePrice, Ev(0, 0, 0, MaxDelta, 0))]}

\* what ticker.history(period="250d") returns when a view fetches it again for a
\* symbol whose fetch saw `seen`: the same bars, none, or other bars
RefetchHists(seen) ==
    {seen, <<>>, MkLong(SlowWindow + 30, BasePrice, NoEvents)}

\* values of the stock_click text input
ClickValues == {""} \cup STOCKS \cup {"ZZZZ"}

\* session_state.viewing_stock: the key not set yet, None, or a symbol
Unset == "<unset>"
ViewNone == "<None>"

(* ------------------------------------------------------------------ state *)

VARIABLES
    call,           \* the provider response fetch_stock_data is called on
    pcf,            \* "call" before fetch_stock_data runs, "ret" after it returned
    result,         \* what fetch_stock_data returned
    pc,             \* where main is in the pass
    viewing_stock,  \* st.session_state.viewing_stock
    auto_refresh,   \* the Auto-refresh checkbox as read by the pass
    idx,            \* position of the fetch loop and of the chart loop in their lists
    all_stock_data, \* main's all_stock_data dict
    seen,           \* history: the provider response each symbol's fetch saw
    summary,        \* rows shown by the Summary Table tab
    cards,          \* cards shown by the Detailed Cards tab and the detail view
    listed,         \* symbols listed by the Golden Cross tab, in order
    chart_hist,     \* history: the 250d history each chart fetched again
    captions        \* caption shown under each Golden Cross chart

fvars == <<call, pcf, result>>
mvars == <<pc, viewing_stock, auto_refresh, idx, all_stock_data, seen, summary,
           cards, listed, chart_hist, captions>>
vars == <<call, pcf, result, pc, viewing_stock, auto_refresh, idx, all_stock_data,
          seen, summary, cards, listed, chart_hist, captions>>

NoCall == [raises |-> "none", info |-> EmptyInfo, hist_recent |-> <<>>, hist_long |-> <<>>]

\* main before its first pass
MainIdle ==
    /\ pc = "idle"
    /\ viewing_stock = Unset
    /\ auto_refresh = FALSE
    /\ idx = 0
    /\ all_stock_data = <<>>
    /\ seen = <<>>
    /\ summary = <<>>
    /\ cards = <<>>
    /\ listed = <<>>
    /\ chart_hist = <<>>
    /\ captions = <<>>

(* --------------------------------------------- fetch_stock_data on its own *)

InitFetch ==
    /\ call \in FetchInputs
    /\ pcf = "call"
    /\ result = None
    /\ MainIdle

\* one call of fetch_stock_data on the provider response
CallFetch ==
    /\ pcf = "call"
    /\ pcf' = "ret"
    /\ result' = fetch_stock_data("AAPL", call)
    /\ UNCHANGED <<call, mvars>>

NextFetch == CallFetch

SpecFetch == InitFetch /\ [][NextFetch]_vars

(* ------------------------------------------------------------------ main *)

InitMain ==
    /\ call = NoCall
    /\ pcf = "call"
    /\ result = None
    /\ MainIdle

\* no pass is running: before the first one, or after one ended
PassOver == {"idle", "done", "returned", "crashed", "rerun"}

\* mutant of StoreResult: a failed fetch is not recorded
StoreResultIfData(data, symbol, stock_data) ==
    IF stock_data = None THEN data ELSE (symbol :> stock_data) @@ data

\* line 469: all_stock_data[symbol] = stock_data
StoreResult(data, symbol, stock_data) == (symbol :> stock_data) @@ data

\* lines 435-436
InitSession(v) == IF v = Unset THEN ViewNone ELSE v

\* lines 434-465: a pass starts, the Refresh button not pressed
BeginPass ==
    /\ pc \in PassOver
    /\ viewing_stock' = InitSession(viewing_stock)
    /\ auto_refresh' \in BOOLEAN
    /\ pc' = "fetch"
    /\ idx' = 1
    /\ all_stock_data' = <<>>
    /\ seen' = <<>>
    /\ summary' = <<>>
    /\ cards' = <<>>
    /\ listed' = <<>>
    /\ chart_hist' = <<>>
    /\ captions' = <<>>
    /\ UNCHANGED fvars

\* lines 434-457: a pass started by the Refresh button ends in st.rerun()
RefreshPressed ==
    /\ pc \in PassOver \ {"rerun"}
    /\ viewing_stock' = InitSession(viewing_stock)
    /\ auto_refresh' \in BOOLEAN
    /\ pc' = "rerun"
    /\ idx' = 0
    /\ all_stock_data' = <<>>
    /\ seen' = <<>>
    /\ summary' = <<>>
    /\ cards' = <<>>
    /\ listed' = <<>>
    /\ chart_hist' = <<>>
    /\ captions' = <<>>
    /\ UNCHANGED fvars

\* lines 467-469: one iteration of the fetch loop
FetchSymbol ==
    /\ pc = "fetch"
    /\ \E p \in MainInputs :
          LET symbol == SymbolSeq[idx] IN
          /\ all_stock_data' =
                 StoreResult(all_stock_data, symbol, fetch_stock_data(symbol, p))
          /\ seen' = (symbol :> p) @@ seen
    /\ IF idx < Len(SymbolSeq)
       THEN idx' = idx + 1 /\ pc' = "fetch"
       ELSE idx' = 0 /\ pc' = "route"
    /\ UNCHANGED <<viewing_stock, auto_refresh, summary, cards, listed, chart_hist,
                   captions, fvars>>

\* lines 479-481: the detail view is shown
ShowsDetail ==
    /\ viewing_stock # ViewNone
    /\ viewing_stock \in DOMAIN all_stock_data
    /\ all_stock_data[viewing_stock] # None

\* lines 482-487: the card is shown, the history fetch raises
DetailFetchRaises ==
    /\ pc = "route"
    /\ ShowsDetail
    /\ cards' = (viewing_stock :> display_stock_card(all_stock_data[viewing_stock]))
    /\ pc' = "crashed"
    /\ UNCHANGED <<viewing_stock, auto_refresh, idx, all_stock_data, seen, summary,
                   listed, chart_hist, captions, fvars>>

\* lines 482-511: the detail view, Back not pressed: main returns
DetailReturn ==
    /\ pc = "route"
    /\ ShowsDetail
    /\ cards' = (viewing_stock :> display_stock_card(all_stock_data[viewing_stock]))
    /\ \E hist \in RefetchHists(seen[viewing_stock].hist_long) :
          chart_hist' = (viewing_stock :> hist)
    /\ pc' = "returned"
    /\ UNCHANGED <<viewing_stock, auto_refresh, idx, all_stock_data, seen, summary,
                   listed, captions, fvars>>

\* lines 482-508: the detail view, Back pressed
DetailBack ==
    /\ pc = "route"
    /\ ShowsDetail
    /\ cards' = (viewing_stock :> display_stock_card(all_stock_data[viewing_stock]))
    /\ \E hist \in RefetchHists(seen[viewing_stock].hist_long) :
          chart_hist' = (viewing_stock :> hist)
    /\ viewing_stock' = ViewNone
    /\ pc' = "rerun"
    /\ UNCHANGED <<auto_refresh, idx, all_stock_data, seen, summary, listed,
                   captions, fvars>>

\* mutant of StockClick: any non-empty click value is taken, `in STOCKS` left out
StockClickAny ==
    /\ pc = "route"
    /\ ~ShowsDetail
    /\ \E stock_click \in ClickValues :
          IF stock_click # ""
          THEN viewing_stock' = stock_click /\ pc' = "rerun"
          ELSE viewing_stock' = viewing_stock /\ pc' = "summary"
    /\ UNCHANGED <<auto_refresh, idx, all_stock_data, seen, summary, cards, listed,
                   chart_hist, captions, fvars>>

\* lines 514-517: the stock_click input
StockClick ==
    /\ pc = "route"
    /\ ~ShowsDetail
    /\ \E stock_click \in ClickValues :
          IF stock_click # "" /\ stock_click \in STOCKS
          THEN viewing_stock' = stock_click /\ pc' = "rerun"
          ELSE viewing_stock' = viewing_stock /\ pc' = "summary"
    /\ UNCHANGED <<auto_refresh, idx, all_stock_data, seen, summary, cards, listed,
                   chart_hist, captions, fvars>>

\* lines 540-542: the Summary Table tab
SummaryTab ==
    /\ pc = "summary"
    /\ IF SummaryRaises(all_stock_data)
       THEN pc' = "crashed" /\ summary' = summary
       ELSE pc' = "cards" /\ summary' = create_summary_table(all_stock_data)
    /\ UNCHANGED <<viewing_stock, auto_refresh, idx, all_stock_data, seen, cards,
                   listed, chart_hist, captions, fvars>>

\* lines 544-562: the Detailed Cards tab, one card per symbol
CardsTab ==
    /\ pc = "cards"
    /\ cards' = [sym \in STOCKS |-> display_stock_card(all_stock_data[sym])]
    /\ pc' = "golden"
    /\ UNCHANGED <<viewing_stock, auto_refresh, idx, all_stock_data, seen, summary,
                   listed, chart_hist, captions, fvars>>

\* lines 564-596, 648-649: the Golden Cross tab's list
GoldenTab ==
    /\ pc = "golden"
    /\ listed' = golden_cross_stocks(all_stock_data)
    /\ IF golden_cross_stocks(all_stock_data) = <<>>
       THEN pc' = "auto" /\ idx' = 0
       ELSE pc' = "charts" /\ idx' = 1
    /\ UNCHANGED <<viewing_stock, auto_refresh, all_stock_data, seen, summary, cards,
                   chart_hist, captions, fvars>>

\* lines 602-641: one listed symbol's chart and caption
GoldenChart ==
    /\ pc = "charts"
    /\ \E hist \in RefetchHists(seen[listed[idx]].hist_long) :
          /\ chart_hist' = (listed[idx] :> hist) @@ chart_hist
          /\ captions' = (listed[idx] :> ChartCaption(hist)) @@ captions
    /\ IF idx < Len(listed)
       THEN idx' = idx + 1 /\ pc' = "charts"
       ELSE idx' = 0 /\ pc' = "auto"
    /\ UNCHANGED <<viewing_stock, auto_refresh, all_stock_data, seen, summary, cards,
                   listed, fvars>>

\* lines 606-607: the chart's history fetch raises
GoldenChartRaises ==
    /\ pc = "charts"
    /\ pc' = "crashed"
    /\ UNCHANGED <<viewing_stock, auto_refresh, idx, all_stock_data, seen, summary,
                   cards, listed, chart_hist, captions, fvars>>

\* lines 651-654 with the checkbox on: sleep 30 seconds, st.rerun()
AutoRefreshRerun ==
    /\ pc = "auto"
    /\ auto_refresh
    /\ pc' = "rerun"
    /\ UNCHANGED <<viewing_stock, auto_refresh, idx, all_stock_data, seen, summary,
                   cards, listed, chart_hist, captions, fvars>>

\* lines 651-661 with the checkbox off: the footer, main ends
PassEnds ==
    /\ pc = "auto"
    /\ ~auto_refresh
    /\ pc' = "done"
    /\ UNCHANGED <<viewing_stock, auto_refresh, idx, all_stock_data, seen, summary,
                   cards, listed, chart_hist, captions, fvars>>

NextMain ==
    \/ BeginPass
    \/ RefreshPressed
    \/ FetchSymbol
    \/ DetailFetchRaises
    \/ DetailReturn
    \/ DetailBack
    \/ StockClick
    \/ SummaryTab
    \/ CardsTab
    \/ GoldenTab
    \/ GoldenChart
    \/ GoldenChartRaises
    \/ AutoRefreshRerun
    \/ PassEnds

SpecMain == InitMain /\ [][NextMain]_vars

(* ------------------------------------------------- claims: fetch_stock_data *)

Returned == pcf = "ret" /\ result # None

\* 4.2 step 3 on the raw closes: day i (1-based) is a crossover day when both
\* averages exist on days i and i-1, fast > slow on day i and fast <= slow on day i-1
CrossoverDay(hist, i) ==
    /\ i - 1 >= SlowWindow
    /\ i <= Len(hist)
    /\ SumClose(hist, i - FastWindow + 1, i) * SlowWindow
         > SumClose(hist, i - SlowWindow + 1, i) * FastWindow
    /\ SumClose(hist, i - FastWindow, i - 1) * SlowWindow
         <= SumClose(hist, i - SlowWindow, i - 1) * FastWindow

\* day i-1 has fast exactly equal to slow
TieBefore(hist, i) ==
    SumClose(hist, i - FastWindow, i - 1) * SlowWindow
        = SumClose(hist, i - SlowWindow, i - 1) * FastWindow

\* the 30 most recent bars
RecentDays(hist) == (Len(hist) - 29) .. Len(hist)

\* sum of the w closes ending at day i, from the running sums
WindowSum(cum, i, w) == cum[i] - (IF i = w THEN 0 ELSE cum[i - w])

\* the crossover days among the 30 most recent bars (the days of CrossoverDay),
\* from the running sums of the closes
RecentCrossoverDays(hist) ==
    LET cum == CumClose(hist, 1, Len(hist), 0)
    IN {i \in RecentDays(hist) :
           /\ i - 1 >= SlowWindow
           /\ WindowSum(cum, i, FastWindow) * SlowWindow
                > WindowSum(cum, i, SlowWindow) * FastWindow
           /\ WindowSum(cum, i - 1, FastWindow) * SlowWindow
                <= WindowSum(cum, i - 1, SlowWindow) * FastWindow}

\* the most recent crossover day among the 30 most recent bars
LastRecentCrossover(hist) ==
    CHOOSE i \in RecentCrossoverDays(hist) : \A j \in RecentCrossoverDays(hist) : j <= i

\* C1: on a series of at least 200 bars golden_cross is true exactly when one of
\* the 30 most recent bars is a crossover day (fast > slow that day, fast <= slow
\* the day before, both averages defined on both days).
C1_GoldenCrossIffRecentCrossover ==
    (Returned /\ Len(call.hist_long) >= SlowWindow) =>
        (result.golden_cross <=>
            \E i \in RecentDays(call.hist_long) : CrossoverDay(call.hist_long, i))

\* the two ways of finding the recent crossover days agree
RecentCrossoverDaysAgree ==
    Len(call.hist_long) >= SlowWindow =>
        RecentCrossoverDays(call.hist_long) =
            {i \in RecentDays(call.hist_long) : CrossoverDay(call.hist_long, i)}

\* a flagged series whose crossover day follows a day with fast = slow
C1_Witness ==
    /\ Returned
    /\ result.golden_cross
    /\ \E i \in RecentDays(call.hist_long) :
          CrossoverDay(call.hist_long, i) /\ TieBefore(call.hist_long, i)

\* C2: ma_50d is None below 50 bars; from 50 to 199 bars ma_50d is present and
\* ma_200d is None; from 200 bars on both are present.
C2_MovingAveragePresence ==
    Returned =>
        LET n == Len(call.hist_long) IN
        /\ (n < 50) => result.ma_50d = None
        /\ (n >= 50 /\ n < 200) => (result.ma_50d # None /\ result.ma_200d = None)
        /\ (n >= 200) => (result.ma_50d # None /\ result.ma_200d # None)

\* a result on exactly 50 bars: ma_50d present, ma_200d absent
C2_Witness ==
    /\ Returned
    /\ Len(call.hist_long) = 50
    /\ result.ma_50d # None
    /\ result.ma_200d = None

\* C3: whenever previous_close is 0 the reported percentage_change is 0.
C3_ZeroPreviousCloseGivesZero ==
    (Returned /\ result.previous_close = Num(0)) =>
        result.percentage_change = Num(0)

\* previous_close as the contract of 4.1 gives it: the second-most-recent close,
\* else the supplied previousClose (a number), else current_price
ContractPreviousClose(info, hist_recent) ==
    IF Len(hist_recent) >= 2 THEN hist_recent[Len(hist_recent) - 1].Close
    ELSE IF "previousClose" \in DOMAIN info /\ info["previousClose"].t = "num"
         THEN info["previousClose"].n
    ELSE hist_recent[Len(hist_recent)].Close

\* C7: on a non-empty series current_price is the last close and daily_change is
\* current_price minus the contract's previous_close.
C7_PriceAndDailyChange ==
    (pcf = "ret" /\ call.raises = "none" /\ Len(call.hist_recent) >= 1) =>
        /\ result # None
        /\ result.current_price = Num(call.hist_recent[Len(call.hist_recent)].Close)
        /\ result.daily_change =
               Num(call.hist_recent[Len(call.hist_recent)].Close
                   - ContractPreviousClose(call.info, call.hist_recent))

\* C7 outside the null case: the same statement when previousClose is not
\* supplied as null on a 1-bar series
C7_HoldsUnlessNullPreviousClose ==
    (/\ pcf = "ret" /\ call.raises = "none" /\ Len(call.hist_recent) >= 1
     /\ ~(/\ Len(call.hist_recent) = 1
          /\ "previousClose" \in DOMAIN call.info
          /\ call.info["previousClose"] = None)) =>
        /\ result # None
        /\ result.current_price = Num(call.hist_recent[Len(call.hist_recent)].Close)
        /\ result.daily_change =
               Num(call.hist_recent[Len(call.hist_recent)].Close
                   - ContractPreviousClose(call.info, call.hist_recent))

\* C8: below 200 bars the scan does not run, raises nothing, and golden_cross is false.
C8_ShortSeriesNoCross ==
    (pcf = "ret" /\ Len(call.hist_long) < SlowWindow) =>
        /\ CrossScan(call.hist_long) = 0
        /\ result # None => result.golden_cross = FALSE

\* a result on 199 bars whose last close moved
C8_Witness ==
    /\ Returned
    /\ Len(call.hist_long) = SlowWindow - 1
    /\ call.hist_long[SlowWindow - 1].Close # call.hist_long[1].Close
    /\ result.golden_cross = FALSE

AllSameClose(hist) == \A i \in 1..Len(hist) : hist[i].Close = hist[1].Close

\* C10: on 200 or more bars of one price, fast equals slow on every day where
\* both are defined, and golden_cross is false.
C10_FlatSeriesNoCross ==
    (Returned /\ Len(call.hist_long) >= SlowWindow /\ AllSameClose(call.hist_long)) =>
        /\ \A i \in SlowWindow..Len(call.hist_long) :
              EqNum(RollingMean(call.hist_long, FastWindow)[i],
                    RollingMean(call.hist_long, SlowWindow)[i])
        /\ result.golden_cross = FALSE

\* a result on a flat series longer than 200 bars at a non-zero price
C10_Witness ==
    /\ Returned
    /\ Len(call.hist_long) > SlowWindow
    /\ AllSameClose(call.hist_long)
    /\ call.hist_long[1].Close > 0
    /\ result.golden_cross = FALSE


\* fast > slow on day i (1-based), from the raw closes
FastAbove(hist, i) ==
    /\ i >= SlowWindow
    /\ i <= Len(hist)
    /\ SumClose(hist, i - FastWindow + 1, i) * SlowWindow
         > SumClose(hist, i - SlowWindow + 1, i) * FastWindow

\* the day (1-based) at which the scan broke, 0 when it did not break
ScanDay(hist) ==
    IF CrossScan(hist) > 0 THEN Len(hist) - CrossScan(hist) + 1 ELSE 0

\* C12: on a series of 200 to 230 bars the scan never breaks at the first day
\* where both averages exist (day 200, index 199), whatever fast and slow are
\* that day.
C12_FirstDefinedDayNeverReported ==
    (pcf = "ret" /\ Len(call.hist_long) >= SlowWindow
                /\ Len(call.hist_long) <= SlowWindow + 30) =>
        ScanDay(call.hist_long) # SlowWindow

\* day 200 lies in the scan window with fast above slow, and is not reported
C12_Witness ==
    /\ Returned
    /\ Len(call.hist_long) >= SlowWindow
    /\ Len(call.hist_long) < SlowWindow + 30
    /\ FastAbove(call.hist_long, SlowWindow)
    /\ ScanDay(call.hist_long) # SlowWindow

\* the entries of the moving-average tails the scan may read: -i and -i-1 for
\* every i of range(1, min(31, len))
ScanReads(hist) ==
    LET len == Min(TailLen, Len(hist))
    IN UNION {{i, i + 1} : i \in 1..(Min(ScanStop, len) - 1)}

\* C13: on 200 or more bars the tails hold 60 entries, every entry the scan may
\* read lies inside them, the scan raises no IndexError and runs at most 30
\* iterations.
C13_ScanReadsInBounds ==
    (pcf = "ret" /\ Len(call.hist_long) >= SlowWindow) =>
        /\ Min(TailLen, Len(call.hist_long)) = 60
        /\ \A k \in ScanReads(call.hist_long) :
              k >= 1 /\ k <= Min(TailLen, Len(call.hist_long))
        /\ Min(ScanStop, Min(TailLen, Len(call.hist_long))) - 1 <= 30
        /\ CrossScan(call.hist_long) >= 0
        /\ CrossScan(call.hist_long) <= 30

\* a scan that ran all 30 iterations and read entry -31: fast is above slow on
\* the 30th most recent bar and no crossover was found
C13_Witness ==
    /\ Returned
    /\ Len(call.hist_long) >= SlowWindow + 31
    /\ CrossScan(call.hist_long) = 0
    /\ FastAbove(call.hist_long, Len(call.hist_long) - 29)

(* ------------------------------------------------------------ claims: main *)

\* a provider response on which the fetch raises or finds an empty history
FetchFails(p) == p.raises # "none" \/ Len(p.hist_recent) < 1

\* the chart of sym fetched again the bars its fetch had seen
SameSeries(sym) ==
    /\ sym \in DOMAIN chart_hist
    /\ sym \in DOMAIN captions
    /\ chart_hist[sym] = seen[sym].hist_long

\* C4: for a flagged symbol whose chart shows the series it was flagged on, the
\* caption is shown and gives the date and the close of the most recent crossover
\* day inside the 30-bar window, which is the day where the backward scan stopped.
C4_CaptionIsScanStopDay ==
    \A sym \in STOCKS :
        (pc = "auto" /\ SameSeries(sym)) =>
            LET hist == seen[sym].hist_long
                day == Len(hist) - CrossScan(hist) + 1
            IN /\ CrossScan(hist) > 0
               /\ captions[sym].shown
               /\ captions[sym].date = hist[day].Date
               /\ captions[sym].price = hist[day].Close
               /\ day = LastRecentCrossover(hist)

\* a caption on a series with two crossover days inside the window
C4_Witness ==
    \E sym \in STOCKS :
        /\ pc = "auto"
        /\ SameSeries(sym)
        /\ captions[sym].shown
        /\ Cardinality(RecentCrossoverDays(seen[sym].hist_long)) >= 2

\* C5: when the fetch loop has ended every symbol of STOCKS has one entry; a
\* symbol whose fetch raised or found no history has None, and every entry is what
\* fetch_stock_data gives on that symbol's own provider response.
C5_FailureIsolated ==
    pc = "route" =>
        /\ DOMAIN all_stock_data = STOCKS
        /\ \A sym \in STOCKS :
              /\ FetchFails(seen[sym]) => all_stock_data[sym] = None
              /\ all_stock_data[sym] = fetch_stock_data(sym, seen[sym])

\* a pass where the first symbol's fetch raised and the second has data
C5_Witness ==
    /\ pc = "route"
    /\ seen[SymbolSeq[1]].raises # "none"
    /\ all_stock_data[SymbolSeq[1]] = None
    /\ all_stock_data[SymbolSeq[2]] # None

\* a metadata field is missing when its key is absent or its value is null
Missing(info, key) == key \notin DOMAIN info \/ info[key] = None

\* the summary row shows N/A for every missing metadata field
RowShowsNA(row, info) ==
    /\ Missing(info, "trailingPE") => row.pe_ratio = NA
    /\ Missing(info, "trailingEPS") => row.eps = NA
    /\ Missing(info, "pegRatio") => row.peg_ratio = NA
    /\ Missing(info, "priceToBook") => row.pb_ratio = NA
    /\ Missing(info, "shortPercentOfFloat") => row.short_percent_float = NA
    /\ Missing(info, "marketCap") => row.market_cap = NA

\* C6: no exception ends a pass, and the summary table of a pass shows N/A for
\* each missing metadata field.
C6_NoExceptionEndsPass ==
    /\ pc # "crashed"
    /\ pc \in {"cards", "golden", "charts", "auto", "done"} =>
          \A sym \in DOMAIN summary : RowShowsNA(summary[sym], seen[sym].info)

\* C6 where the code holds: a summary table that is shown has N/A for each
\* missing metadata field
C6_ShownTableHasNA ==
    pc \in {"cards", "golden", "charts", "auto", "done"} =>
        \A sym \in DOMAIN summary : RowShowsNA(summary[sym], seen[sym].info)

\* C9: the Golden Cross view lists exactly the symbols with data and
\* golden_cross, and each listed symbol has a caption with the date and close of
\* its most recent crossover.
C9_ListedAndAnnotated ==
    pc = "auto" =>
        /\ {listed[i] : i \in 1..Len(listed)} =
               {sym \in STOCKS :
                   all_stock_data[sym] # None /\ all_stock_data[sym].golden_cross}
        /\ \A i \in 1..Len(listed) :
              LET hist == seen[listed[i]].hist_long IN
              /\ captions[listed[i]].shown
              /\ captions[listed[i]].date = hist[LastRecentCrossover(hist)].Date
              /\ captions[listed[i]].price = hist[LastRecentCrossover(hist)].Close

\* C9, the list alone: the view lists exactly the symbols with data and golden_cross
C9_ListedExactly ==
    pc \in {"charts", "auto"} =>
        {listed[i] : i \in 1..Len(listed)} =
            {sym \in STOCKS :
                all_stock_data[sym] # None /\ all_stock_data[sym].golden_cross}

\* the step of lines 515-517: a click value that is a key of STOCKS is stored
ClickStep ==
    /\ pc = "route"
    /\ ~ShowsDetail
    /\ viewing_stock' \in ClickValues \cap STOCKS
    /\ pc' = "rerun"

\* the step of lines 506-508: Back to Summary in the detail view
BackStep ==
    /\ pc = "route"
    /\ ShowsDetail
    /\ viewing_stock' = ViewNone
    /\ pc' = "rerun"

\* the detail view is rendered in this step (its card is the only card shown)
DetailRendered == pc = "route" /\ cards' # cards /\ pc' # "fetch"

\* C14: once a pass has started viewing_stock is None or a key of STOCKS; it
\* becomes a symbol only by a click value that is a key of STOCKS, goes back to
\* None only by Back, and the detail view is rendered only for the viewed symbol
\* when its data of the pass is present.
C14_ViewingStock ==
    /\ [](pc # "idle" => viewing_stock \in {ViewNone} \cup STOCKS)
    /\ [][(viewing_stock' # viewing_stock /\ viewing_stock' # ViewNone)
             => ClickStep]_vars
    /\ [][(viewing_stock \in STOCKS /\ viewing_stock' = ViewNone) => BackStep]_vars
    /\ [][DetailRendered =>
             /\ viewing_stock \in STOCKS
             /\ all_stock_data[viewing_stock] # None
             /\ DOMAIN cards' = {viewing_stock}]_vars

\* a detail view shown for a clicked symbol
C14_Witness ==
    /\ pc = "returned"
    /\ viewing_stock \in STOCKS
    /\ DOMAIN cards = {viewing_stock}

\* a pass that went on to the tabbed views is over: every symbol was fetched,
\* the detail view was not opened (a pass ended by a click or by Back is in
\* "rerun" already)
TabbedPassOver ==
    /\ pc \in PassOver \ {"idle"}
    /\ DOMAIN all_stock_data = STOCKS
    /\ ~ShowsDetail

\* a pass that showed the detail view is over and Back was not pressed: the
\* viewed symbol's card is the only card
DetailPassOver ==
    /\ pc \in PassOver
    /\ viewing_stock \in STOCKS
    /\ DOMAIN cards = {viewing_stock}

\* C15: with auto-refresh on, a pass that shows the tabbed views ends in the
\* rerun of line 654; a pass that shows the detail view ends without a rerun
\* unless Back was pressed.
C15_TabbedPassEndsInRerun ==
    /\ (auto_refresh /\ TabbedPassOver) => pc = "rerun"
    /\ DetailPassOver => pc # "rerun"

\* what does hold: a pass that reaches line 652 with the checkbox on reruns, one
\* that ends at the footer had it off, and a detail pass without Back ends in
\* the return of line 511 or in an exception, never in a rerun
C15_RerunsUnlessException ==
    /\ (auto_refresh /\ TabbedPassOver) => pc \in {"rerun", "crashed"}
    /\ pc = "done" => ~auto_refresh
    /\ pc = "returned" => DetailPassOver
    /\ DetailPassOver => pc \in {"returned", "crashed"}

====
